---------------------------- MODULE Spec2Model ----------------------------
(* LoggingSubprocess (src/src/openjd/sessions/_subprocess.py): one handle,   *)
(* the threads that call run() on it, a thread that calls notify() and       *)
(* terminate(), a thread that calls wait_until_started(), and the operating  *)
(* system's processes that run() spawns; the constructor's checks; and the  *)
(* read loop of run() over the characters of one child's output.             *)
(*                                                                           *)
(* Every read and write of an attribute of the handle is a step of its own,  *)
(* as the class takes no lock: self._process is loaded again at each use.    *)
EXTENDS Integers, Sequences, FiniteSets, TLC

(* ------------------------------ bounds ---------------------------------- *)
\* run() invocations over the life of the handle, over all threads
MaxRuns == 2
\* notify()/terminate() invocations over the life of the handle
MaxSignals == 1
\* lines a child writes to its merged stdout/stderr
MaxLines == 1
\* largest timeout, in clock ticks, handed to wait_until_started
MaxTimeout == 1
\* longest `args` handed to the constructor
MaxArgs == 1
\* lines in the output of the child whose stream is read
MaxStreamLines == 2

\* the most characters one readline() may return
LOG_LINE_MAX_LENGTH == 64 * 1000

(* ------------------------------ threads --------------------------------- *)
Runners == {"r1", "r2"}
Signalers == {"s1"}
Waiters == {"w1"}

\* self._process is None
NoProcess == 0
\* Popen.returncode is None: a return code is the empty set or one integer
NoCode == {}
\* a wait with timeout=None
NoTimeout == -1
\* exit statuses: the child's own exit, and death by SIGKILL
ExitOk == 0
ExitKilled == -9

VARIABLES
    os_name,        \* "posix" | "nt": the host
    user,           \* self._user: "none" | "same" (as getuser()) | "other"
    has_callback,   \* self._callback is not None
    args_len,       \* len(args) handed to the constructor
    user_type,      \* class of `user`: "none" | "posix" | "windows" (SessionUser subclass)
    handle,         \* "unbuilt" | "ok" (constructed) | "error" (the constructor raised)
    process,        \* self._process: NoProcess or an index into procs
    start_failed,   \* self._start_failed
    has_started,    \* self._has_started (threading.Event) is set
    procs,          \* the Popen objects created so far, with their OS process
    cb_count,       \* number of invocations of self._callback
    run_calls,      \* run() invocations so far
    rpc,            \* runner -> position in run()
    rret,           \* runner -> what its _start_subprocess() returned
    rstream,        \* runner -> the local `stream` (the proc whose stdout it is)
    sig_calls,      \* notify()/terminate() invocations so far
    spc,            \* signaler -> position in notify()/terminate()
    sop,            \* signaler -> "notify" | "terminate"
    snoop,          \* signaler -> at the call, no process was started or it had exited
    sres,           \* signaler -> outcome of the relay of its call
    last_relay,     \* the relay invocation (POSIX script or Windows tree kill) of the latest call
    wpc,            \* waiter -> position in wait_until_started()
    wtimeout,       \* waiter -> its timeout, NoTimeout for none
    welapsed,       \* waiter -> ticks it has been blocked
    pipe,           \* the output of a child: lines [len, nl] of len characters, ended by "\n" or not
    sink,           \* the records handed to the logger, in order: [line, off, len]
    reader          \* the read loop: [at, line, off], the position in pipe of the next read

vars == << os_name, user, has_callback, args_len, user_type, handle,
           process, start_failed, has_started,
           procs, cb_count, run_calls, rpc, rret, rstream,
           sig_calls, spc, sop, snoop, sres, last_relay,
           wpc, wtimeout, welapsed, pipe, sink, reader >>

handleVars == << process, start_failed, has_started >>
runnerVars == << run_calls, rpc, rret, rstream >>
signalVars == << sig_calls, spc, sop, snoop, sres, last_relay >>
waitVars == << wpc, wtimeout, welapsed >>
configVars == << os_name, user, has_callback, args_len, user_type, handle >>
streamVars == << pipe, sink, reader >>

(* ----------------------------- accessors -------------------------------- *)
is_posix == os_name = "posix"

pid == IF process # NoProcess THEN process ELSE NoProcess

exit_code == IF process # NoProcess THEN procs[process].returncode ELSE NoCode

is_running == IF process # NoProcess THEN procs[process].returncode = NoCode ELSE FALSE

failed_to_start == start_failed

NoRelay == [kind |-> "none", pid |-> NoProcess, signal |-> "none",
            signal_child |-> FALSE, signal_subprocesses |-> FALSE, sudo |-> FALSE]

(* ---------------------------- construction ------------------------------ *)
\* lines 81-83 and the threads that have called nothing yet
Unstarted ==
    /\ process = NoProcess
    /\ start_failed = FALSE
    /\ has_started = FALSE
    /\ procs = << >>
    /\ cb_count = 0
    /\ run_calls = 0
    /\ rpc = [t \in Runners |-> "idle"]
    /\ rret = [t \in Runners |-> NoProcess]
    /\ rstream = [t \in Runners |-> NoProcess]
    /\ sig_calls = 0
    /\ spc = [s \in Signalers |-> "idle"]
    /\ sop = [s \in Signalers |-> "none"]
    /\ snoop = [s \in Signalers |-> FALSE]
    /\ sres = [s \in Signalers |-> "none"]
    /\ last_relay = NoRelay
    /\ wpc = [w \in Waiters |-> "idle"]
    /\ wtimeout = [w \in Waiters |-> NoTimeout]
    /\ welapsed = [w \in Waiters |-> 0]

\* what a caller can hand to the constructor on a host: any `args`, no user or
\* a user of either class, whose name is or is not the name getuser() returns
Arguments ==
    /\ os_name \in {"posix", "nt"}
    /\ has_callback \in BOOLEAN
    /\ args_len \in 0..MaxArgs
    /\ user \in {"none", "same", "other"}
    /\ user_type \in {"none", "posix", "windows"}
    /\ user = "none" <=> user_type = "none"

\* lines 69-74: the constructor raises ValueError
Rejected ==
    \/ args_len < 1
    \/ user # "none" /\ os_name = "posix" /\ user_type # "posix"
    \/ user # "none" /\ os_name = "nt" /\ user_type # "windows"

\* the mutable state before run() has been called; the stream is not examined
Fresh ==
    /\ Unstarted
    /\ pipe = << >>
    /\ sink = << >>
    /\ reader = [at |-> "idle", line |-> 1, off |-> 0]

\* the state after a successful construction
Init ==
    /\ Arguments
    /\ ~Rejected
    /\ handle = "ok"
    /\ Fresh

\* the state before the constructor is called
Unbuilt ==
    /\ Arguments
    /\ handle = "unbuilt"
    /\ Fresh

\* __init__ with the check of the user's class against Windows left out
ConstructNoWindowsCheck ==
    /\ handle = "unbuilt"
    /\ IF args_len < 1 \/ (user # "none" /\ os_name = "posix" /\ user_type # "posix")
       THEN handle' = "error"
       ELSE handle' = "ok"
    /\ process' = NoProcess
    /\ start_failed' = FALSE
    /\ has_started' = FALSE
    /\ UNCHANGED << os_name, user, has_callback, args_len, user_type, procs, cb_count,
                    runnerVars, signalVars, waitVars, streamVars >>

\* lines 60-83: __init__
Construct ==
    /\ handle = "unbuilt"
    /\ IF Rejected THEN handle' = "error" ELSE handle' = "ok"
    /\ process' = NoProcess
    /\ start_failed' = FALSE
    /\ has_started' = FALSE
    /\ UNCHANGED << os_name, user, has_callback, args_len, user_type, procs, cb_count,
                    runnerVars, signalVars, waitVars, streamVars >>

(* ------------------------- the operating system ------------------------- *)
\* lines 213-222: the command starts with sudo -u <user> -i setsid -w
Elevated == user # "none" /\ is_posix /\ user = "other"

\* the command of a host that is not POSIX, wrapped only when a user is given
StartCommandWrapsForUser ==
    [sudo |-> Elevated,
     wrapper |-> ~is_posix /\ user # "none",
     start_new_session |-> TRUE,
     new_process_group |-> ~is_posix]

\* lines 212-248: the command and the Popen arguments that _start_subprocess
\* builds. sudo: the sudo/setsid prefix; wrapper: powershell.exe
\* -ExecutionPolicy Unrestricted -EncodedCommand <base64 of the start-job
\* wrapper of (args, user)> in place of args; new_process_group: creationflags
StartCommand ==
    [sudo |-> Elevated,
     wrapper |-> ~is_posix,
     start_new_session |-> TRUE,
     new_process_group |-> ~is_posix]

\* Popen(**popen_args) succeeded: a new child with `lines` lines of output to come
NewProc(lines) ==
    [alive |-> TRUE, status |-> ExitOk, out |-> lines, eof |-> FALSE,
     returncode |-> NoCode, command |-> StartCommand]

\* the child p ends with the given status (its unread output stays in the pipe)
Exited(p, status) ==
    IF procs[p].alive
    THEN [procs EXCEPT ![p].alive = FALSE, ![p].status = status]
    ELSE procs

\* Popen.poll() and Popen.wait() on an exited child: collect and store its status
Reaped(ps, p) ==
    IF ps[p].returncode = NoCode
    THEN [ps EXCEPT ![p].returncode = {ps[p].status}]
    ELSE ps

\* a child exits by itself
ProcExit ==
    /\ \E p \in 1..Len(procs) :
         /\ procs[p].alive
         /\ procs' = Exited(p, ExitOk)
    /\ UNCHANGED << handleVars, cb_count, runnerVars, signalVars, waitVars, configVars, streamVars >>

(* -------------------------------- run() --------------------------------- *)
\* a thread that is not inside run()
Outside == {"idle", "done", "raised", "crashed"}

\* run() invocations that have ended
RunsEnded == run_calls - Cardinality({t \in Runners : rpc[t] \notin Outside})

\* the threads are interchangeable: name the first to call run() "r1"
FirstCaller(t) == t = "r1" \/ run_calls > 0

\* the invocation of t ends in the given way; its locals die with it
Leave(t, how) ==
    /\ rpc' = [rpc EXCEPT ![t] = how]
    /\ rstream' = [rstream EXCEPT ![t] = NoProcess]

\* line 138-139: the re-entrancy check
RunEnter(t) ==
    /\ handle = "ok"
    /\ rpc[t] \in Outside
    /\ FirstCaller(t)
    /\ run_calls < MaxRuns
    /\ run_calls' = run_calls + 1
    /\ rpc' = [rpc EXCEPT ![t] = IF process # NoProcess THEN "raised" ELSE "spawn"]
    /\ UNCHANGED << handleVars, procs, cb_count, rret, rstream, signalVars, waitVars, configVars, streamVars >>

\* line 141, right-hand side: _start_subprocess() returns a Popen or, on OSError, None
RunSpawn(t) ==
    /\ rpc[t] = "spawn"
    /\ \/ /\ rret' = [rret EXCEPT ![t] = NoProcess]
          /\ UNCHANGED procs
       \/ \E lines \in 0..MaxLines :
             /\ procs' = Append(procs, NewProc(lines))
             /\ rret' = [rret EXCEPT ![t] = Len(procs) + 1]
    /\ rpc' = [rpc EXCEPT ![t] = "assign"]
    /\ UNCHANGED << handleVars, cb_count, run_calls, rstream, signalVars, waitVars, configVars, streamVars >>

\* line 141 with the latch already taken as set: line 142 is passed over
RunAssignPastLatch(t) ==
    /\ rpc[t] = "assign"
    /\ process' = rret[t]
    /\ rret' = [rret EXCEPT ![t] = NoProcess]
    /\ rpc' = [rpc EXCEPT ![t] = "branch"]
    /\ UNCHANGED << start_failed, has_started, procs, cb_count, run_calls, rstream,
                    signalVars, waitVars, configVars, streamVars >>

\* line 141, the assignment to self._process
RunAssign(t) ==
    /\ rpc[t] = "assign"
    /\ process' = rret[t]
    /\ rret' = [rret EXCEPT ![t] = NoProcess]
    /\ rpc' = [rpc EXCEPT ![t] = "set"]
    /\ UNCHANGED << start_failed, has_started, procs, cb_count, run_calls, rstream,
                    signalVars, waitVars, configVars, streamVars >>

\* line 142 left out
RunSetLatchMissing(t) ==
    /\ rpc[t] = "set"
    /\ rpc' = [rpc EXCEPT ![t] = "branch"]
    /\ UNCHANGED << handleVars, procs, cb_count, run_calls, rret, rstream,
                    signalVars, waitVars, configVars, streamVars >>

\* line 142: self._has_started.set()
RunSetLatch(t) ==
    /\ rpc[t] = "set"
    /\ has_started' = TRUE
    /\ rpc' = [rpc EXCEPT ![t] = "branch"]
    /\ UNCHANGED << process, start_failed, procs, cb_count, run_calls, rret, rstream,
                    signalVars, waitVars, configVars, streamVars >>

\* line 143: if self._process is None
RunBranch(t) ==
    /\ rpc[t] = "branch"
    /\ rpc' = [rpc EXCEPT ![t] = IF process = NoProcess THEN "fail" ELSE "log"]
    /\ UNCHANGED << handleVars, procs, cb_count, run_calls, rret, rstream,
                    signalVars, waitVars, configVars, streamVars >>

\* line 145: self._start_failed = True
RunStartFailed(t) ==
    /\ rpc[t] = "fail"
    /\ start_failed' = TRUE
    /\ rpc' = [rpc EXCEPT ![t] = "failcb"]
    /\ UNCHANGED << process, has_started, procs, cb_count, run_calls, rret, rstream,
                    signalVars, waitVars, configVars, streamVars >>

\* lines 146-148: the callback of the start-failure path, and the return
RunFailCallback(t) ==
    /\ rpc[t] = "failcb"
    /\ cb_count' = IF has_callback THEN cb_count + 1 ELSE cb_count
    /\ Leave(t, "done")
    /\ UNCHANGED << handleVars, procs, run_calls, rret, signalVars, waitVars, configVars, streamVars >>

\* line 150: the start announcement reads self._process.pid
RunLogStart(t) ==
    /\ rpc[t] = "log"
    /\ rpc' = [rpc EXCEPT ![t] = IF process = NoProcess THEN "crashed" ELSE "stream"]
    /\ UNCHANGED << handleVars, procs, cb_count, run_calls, rret, rstream,
                    signalVars, waitVars, configVars, streamVars >>

\* line 152: stream = self._process.stdout
RunGetStream(t) ==
    /\ rpc[t] = "stream"
    /\ IF process = NoProcess
       THEN Leave(t, "crashed")
       ELSE /\ rpc' = [rpc EXCEPT ![t] = "read"]
            /\ rstream' = [rstream EXCEPT ![t] = process]
    /\ UNCHANGED << handleVars, procs, cb_count, run_calls, rret,
                    signalVars, waitVars, configVars, streamVars >>

\* lines 161-163: one line read from the stream and forwarded to the logger
RunReadLine(t) ==
    /\ rpc[t] = "read"
    /\ procs[rstream[t]].out > 0
    /\ procs' = [procs EXCEPT ![rstream[t]].out = @ - 1]
    /\ UNCHANGED << handleVars, cb_count, runnerVars, signalVars, waitVars, configVars, streamVars >>

\* line 161: readline returns "", the end of the stream: the child has exited
\* and its output has been read
RunEndOfStream(t) ==
    /\ rpc[t] = "read"
    /\ procs[rstream[t]].out = 0
    /\ ~procs[rstream[t]].alive
    /\ procs' = [procs EXCEPT ![rstream[t]].eof = TRUE]
    /\ rpc' = [rpc EXCEPT ![t] = "wait"]
    /\ rstream' = [rstream EXCEPT ![t] = NoProcess]
    /\ UNCHANGED << handleVars, cb_count, run_calls, rret, signalVars, waitVars, configVars, streamVars >>

\* line 165: self._process.wait() blocks until the child has exited, and
\* stores its status in returncode
RunWait(t) ==
    /\ rpc[t] = "wait"
    /\ IF process = NoProcess
       THEN /\ rpc' = [rpc EXCEPT ![t] = "crashed"]
            /\ UNCHANGED procs
       ELSE /\ ~procs[process].alive
            /\ procs' = Reaped(procs, process)
            /\ rpc' = [rpc EXCEPT ![t] = "cb"]
    /\ UNCHANGED << handleVars, cb_count, run_calls, rret, rstream,
                    signalVars, waitVars, configVars, streamVars >>

\* lines 167-168: the callback after the reap, and the return
RunCallback(t) ==
    /\ rpc[t] = "cb"
    /\ cb_count' = IF has_callback THEN cb_count + 1 ELSE cb_count
    /\ rpc' = [rpc EXCEPT ![t] = "done"]
    /\ UNCHANGED << handleVars, procs, run_calls, rret, rstream,
                    signalVars, waitVars, configVars, streamVars >>

\* a step of a thread that is inside run()
RunStep(t) ==
    \/ RunSpawn(t)
    \/ RunAssign(t)
    \/ RunSetLatch(t)
    \/ RunBranch(t)
    \/ RunStartFailed(t)
    \/ RunFailCallback(t)
    \/ RunLogStart(t)
    \/ RunGetStream(t)
    \/ RunReadLine(t)
    \/ RunEndOfStream(t)
    \/ RunWait(t)
    \/ RunCallback(t)

Run(t) == RunEnter(t) \/ RunStep(t)

(* ------------------------ notify() and terminate() ---------------------- *)
\* what the call finds: no process was ever started, or the tracked one has exited
NothingToSignal == process = NoProcess \/ ~procs[process].alive

\* lines 180 and 197, left operand: self._process is not None
SigEnter(s) ==
    /\ handle = "ok"
    /\ spc[s] \in {"idle", "returned", "raised"}
    /\ sig_calls < MaxSignals
    /\ sig_calls' = sig_calls + 1
    /\ \E op \in {"notify", "terminate"} : sop' = [sop EXCEPT ![s] = op]
    /\ snoop' = [snoop EXCEPT ![s] = NothingToSignal]
    /\ sres' = [sres EXCEPT ![s] = "none"]
    /\ last_relay' = NoRelay
    /\ spc' = [spc EXCEPT ![s] = IF process = NoProcess THEN "returned" ELSE "poll"]
    /\ UNCHANGED << handleVars, procs, cb_count, runnerVars, waitVars, configVars, streamVars >>

\* lines 180 and 197, right operand: self._process.poll() is None. poll() stores
\* the status of a child that has exited in returncode
SigPoll(s) ==
    /\ spc[s] = "poll"
    /\ IF process = NoProcess
       THEN /\ spc' = [spc EXCEPT ![s] = "raised"]
            /\ UNCHANGED procs
       ELSE IF ~procs[process].alive
            THEN /\ procs' = Reaped(procs, process)
                 /\ spc' = [spc EXCEPT ![s] = "returned"]
            ELSE /\ spc' = [spc EXCEPT ![s] = "signal"]
                 /\ UNCHANGED procs
    /\ UNCHANGED << handleVars, cb_count, runnerVars, sig_calls, sop, snoop, sres,
                    last_relay, waitVars, configVars, streamVars >>

\* the relay's command line with sudo for every user that is given
PosixRelaySudoForAnyUser(p, signal, signal_subprocesses) ==
    [kind |-> "posix", pid |-> p, signal |-> signal,
     signal_child |-> (user # "none"),
     signal_subprocesses |-> signal_subprocesses,
     sudo |-> (user # "none")]

\* lines 285-303: the relay's command line
PosixRelay(p, signal, signal_subprocesses) ==
    [kind |-> "posix", pid |-> p, signal |-> signal,
     signal_child |-> (user # "none"),
     signal_subprocesses |-> signal_subprocesses,
     sudo |-> (user = "other")]

\* lines 262-310: _posix_signal_subprocess runs the relay script; a relay that
\* exits with 0 has sent the signal. SIGKILL ends the child; what SIGTERM does
\* is the child's choice, which ends, if it does, by ProcExit
SigPosixRelay(s) ==
    /\ spc[s] = "signal"
    /\ is_posix
    /\ IF process = NoProcess
       THEN /\ spc' = [spc EXCEPT ![s] = "raised"]
            /\ UNCHANGED << procs, sres, last_relay >>
       ELSE /\ last_relay' = PosixRelay(process,
                                IF sop[s] = "notify" THEN "term" ELSE "kill",
                                sop[s] = "terminate")
            /\ \/ /\ sres' = [sres EXCEPT ![s] = "failed"]
                  /\ spc' = [spc EXCEPT ![s] = "warn"]
                  /\ UNCHANGED procs
               \/ /\ sres' = [sres EXCEPT ![s] = "ok"]
                  /\ spc' = [spc EXCEPT ![s] = "returned"]
                  /\ IF sop[s] = "terminate"
                     THEN procs' = Exited(process, ExitKilled)
                     ELSE UNCHANGED procs
    /\ UNCHANGED << handleVars, cb_count, runnerVars, sig_calls, sop, snoop, waitVars, configVars, streamVars >>

\* lines 311-315: the relay exited with a status other than 0; the warning
\* formats self._process.pid, loading self._process again
SigRelayWarning(s) ==
    /\ spc[s] = "warn"
    /\ spc' = [spc EXCEPT ![s] = IF process = NoProcess THEN "raised" ELSE "returned"]
    /\ UNCHANGED << handleVars, procs, cb_count, runnerVars, sig_calls, sop, snoop, sres,
                    last_relay, waitVars, configVars, streamVars >>

\* line 185: notify() on a host that is not POSIX
SigNotifyUnsupported(s) ==
    /\ spc[s] = "signal"
    /\ ~is_posix
    /\ sop[s] = "notify"
    /\ spc' = [spc EXCEPT ![s] = "raised"]
    /\ UNCHANGED << handleVars, procs, cb_count, runnerVars, sig_calls, sop, snoop, sres,
                    last_relay, waitVars, configVars, streamVars >>

\* kill_windows_process_tree(logger, pid, signal_subprocesses=True): ends every
\* process of the tree rooted at pid
KillWindowsProcessTree(p) == Exited(p, ExitKilled)

\* lines 201-204: terminate() on Windows
SigWindowsKill(s) ==
    /\ spc[s] = "signal"
    /\ ~is_posix
    /\ sop[s] = "terminate"
    /\ IF process = NoProcess
       THEN /\ spc' = [spc EXCEPT ![s] = "raised"]
            /\ UNCHANGED << procs, sres, last_relay >>
       ELSE /\ last_relay' = [kind |-> "windows", pid |-> process, signal |-> "kill",
                              signal_child |-> FALSE, signal_subprocesses |-> TRUE,
                              sudo |-> FALSE]
            /\ spc' = [spc EXCEPT ![s] = "returned"]
            /\ \/ /\ sres' = [sres EXCEPT ![s] = "failed"]
                  /\ UNCHANGED procs
               \/ /\ sres' = [sres EXCEPT ![s] = "ok"]
                  /\ procs' = KillWindowsProcessTree(process)
    /\ UNCHANGED << handleVars, cb_count, runnerVars, sig_calls, sop, snoop, waitVars, configVars, streamVars >>

\* a step of a thread that is inside notify() or terminate()
SignalStep(s) ==
    \/ SigPoll(s)
    \/ SigPosixRelay(s)
    \/ SigRelayWarning(s)
    \/ SigNotifyUnsupported(s)
    \/ SigWindowsKill(s)

Signal(s) == SigEnter(s) \/ SignalStep(s)

(* ---------------------------- the read loop ----------------------------- *)
\* lengths of lines around the limit of one read
LineLengths ==
    {0, 1, LOG_LINE_MAX_LENGTH - 1, LOG_LINE_MAX_LENGTH, LOG_LINE_MAX_LENGTH + 1,
     2 * LOG_LINE_MAX_LENGTH + 1}

\* what a child can write: every line but the last ends with "\n", and a last
\* line without "\n" has at least one character. The stream is opened with an
\* encoding, so "\r\n" and "\r" arrive as "\n"
Outputs ==
    { o \in UNION { [1..n -> [len : LineLengths, nl : BOOLEAN]] : n \in 0..MaxStreamLines } :
        \A i \in 1..Len(o) :
            /\ i < Len(o) => o[i].nl
            /\ o[i].nl \/ o[i].len > 0 }

\* characters of line i of o, the "\n" included
Chars(o, i) == o[i].len + (IF o[i].nl THEN 1 ELSE 0)

Min(a, b) == IF a < b THEN a ELSE b

\* readline() with no limit
ReadlineUnlimited(o, i, off, size) ==
    IF i > Len(o)
    THEN [n |-> 0, nl |-> FALSE]
    ELSE [n |-> Chars(o, i) - off, nl |-> o[i].nl]

\* TextIOWrapper.readline(size) at offset off of line i: the characters up to
\* and including the next "\n", size of them at most, none at the end of the
\* stream. n: the number of characters returned; nl: the last one is "\n"
Readline(o, i, off, size) ==
    IF i > Len(o)
    THEN [n |-> 0, nl |-> FALSE]
    ELSE [n |-> Min(size, Chars(o, i) - off),
          nl |-> o[i].nl /\ Chars(o, i) - off <= size]

\* line 162: line.rstrip("\n\r"), the length of the result
Rstrip(chunk) == chunk.n - (IF chunk.nl THEN 1 ELSE 0)

\* line 160: stream.readline(LOG_LINE_MAX_LENGTH)
StreamReadline == Readline(pipe, reader.line, reader.off, LOG_LINE_MAX_LENGTH)

\* lines 161-163: a read that is not the sentinel "" is stripped and logged
StreamForward ==
    /\ reader.at = "reading"
    /\ StreamReadline.n # 0
    /\ sink' = Append(sink, [line |-> reader.line, off |-> reader.off,
                              len |-> Rstrip(StreamReadline)])
    /\ reader' = IF reader.off + StreamReadline.n = Chars(pipe, reader.line)
                 THEN [reader EXCEPT !.line = reader.line + 1, !.off = 0]
                 ELSE [reader EXCEPT !.off = reader.off + StreamReadline.n]
    /\ UNCHANGED << handleVars, procs, cb_count, runnerVars, signalVars, waitVars,
                    configVars, pipe >>

\* line 161: iter(..., "") ends the loop at the first read that returns ""
StreamEnd ==
    /\ reader.at = "reading"
    /\ StreamReadline.n = 0
    /\ reader' = [reader EXCEPT !.at = "eof"]
    /\ UNCHANGED << handleVars, procs, cb_count, runnerVars, signalVars, waitVars,
                    configVars, pipe, sink >>

(* -------------------------- wait_until_started() ------------------------ *)
\* line 131: Event.wait(timeout) returns at once when the event is set
WaitEnter(w) ==
    /\ handle = "ok"
    /\ wpc[w] = "idle"
    /\ IF has_started
       THEN /\ wpc' = [wpc EXCEPT ![w] = "returned"]
            /\ UNCHANGED wtimeout
       ELSE /\ wpc' = [wpc EXCEPT ![w] = "blocked"]
            /\ \E timeout \in {NoTimeout} \cup (1..MaxTimeout) :
                  wtimeout' = [wtimeout EXCEPT ![w] = timeout]
    /\ UNCHANGED welapsed
    /\ UNCHANGED << handleVars, procs, cb_count, runnerVars, signalVars, configVars, streamVars >>

\* line 131: the event is set while the caller is blocked
WaitRelease(w) ==
    /\ wpc[w] = "blocked"
    /\ has_started
    /\ wpc' = [wpc EXCEPT ![w] = "released"]
    /\ wtimeout' = [wtimeout EXCEPT ![w] = NoTimeout]
    /\ welapsed' = [welapsed EXCEPT ![w] = 0]
    /\ UNCHANGED << handleVars, procs, cb_count, runnerVars, signalVars, configVars, streamVars >>

\* line 131: the timeout elapses while the caller is blocked
WaitTimeout(w) ==
    /\ wpc[w] = "blocked"
    /\ wtimeout[w] # NoTimeout
    /\ welapsed[w] >= wtimeout[w]
    /\ wpc' = [wpc EXCEPT ![w] = "timedout"]
    /\ wtimeout' = [wtimeout EXCEPT ![w] = NoTimeout]
    /\ welapsed' = [welapsed EXCEPT ![w] = 0]
    /\ UNCHANGED << handleVars, procs, cb_count, runnerVars, signalVars, configVars, streamVars >>

\* the clock: a blocked caller is woken when its timeout is due, so time does
\* not pass beyond the timeout of a caller that is still blocked
Tick ==
    /\ \E w \in Waiters : wpc[w] = "blocked" /\ wtimeout[w] # NoTimeout
    /\ \A w \in Waiters :
         (wpc[w] = "blocked" /\ wtimeout[w] # NoTimeout) => welapsed[w] < wtimeout[w]
    /\ welapsed' = [w \in Waiters |->
                      IF wpc[w] = "blocked" /\ wtimeout[w] # NoTimeout
                      THEN welapsed[w] + 1 ELSE welapsed[w]]
    /\ UNCHANGED << handleVars, procs, cb_count, runnerVars, signalVars, wpc, wtimeout,
                    configVars, streamVars >>

Wait(w) ==
    \/ WaitEnter(w)
    \/ WaitRelease(w)
    \/ WaitTimeout(w)

(* --------------------------- specifications ----------------------------- *)
\* the threads that call run(), the thread that cancels, and the children
Next ==
    \/ \E t \in Runners : Run(t)
    \/ \E s \in Signalers : Signal(s)
    \/ ProcExit

Spec == Init /\ [][Next]_vars

\* a thread inside a method is scheduled again and again; no thread need
\* ever call a method, and a child need never exit
FairSpec ==
    /\ Spec
    /\ \A t \in Runners : WF_vars(RunStep(t))
    /\ \A s \in Signalers : WF_vars(SignalStep(s))

\* the threads that call run(), the thread that waits for the start, the
\* clock and the children
WaitNext ==
    \/ \E t \in Runners : Run(t)
    \/ \E w \in Waiters : Wait(w)
    \/ ProcExit
    \/ Tick

\* no step of WaitNext reads the host or the user: one of each will do
WaitInit == Init /\ os_name = "posix" /\ user = "none" /\ args_len = 1

WaitSpec ==
    /\ WaitInit /\ [][WaitNext]_vars
    /\ \A t \in Runners : WF_vars(RunStep(t))
    /\ \A w \in Waiters : WF_vars(WaitRelease(w)) /\ WF_vars(WaitTimeout(w))

\* the thread that calls run() where one thread does
Owner == "r1"

\* a handle from the call of its constructor on, with one thread that calls
\* run() and one that cancels
HandleNext ==
    \/ Construct
    \/ Run(Owner)
    \/ \E s \in Signalers : Signal(s)
    \/ ProcExit

HandleSpec == Unbuilt /\ [][HandleNext]_vars

\* the read loop of run() over the whole output of one child
StreamInit ==
    /\ Arguments
    /\ os_name = "posix" /\ user = "none" /\ has_callback = FALSE /\ args_len = 1
    /\ handle = "ok"
    /\ Unstarted
    /\ pipe \in Outputs
    /\ sink = << >>
    /\ reader = [at |-> "reading", line |-> 1, off |-> 0]

StreamNext == StreamForward \/ StreamEnd

StreamSpec == StreamInit /\ [][StreamNext]_vars

(* ------------------------------- claims --------------------------------- *)
\* C1: exit_code is None unless the child has exited and run() has read its
\* output to the end of the stream.
C1_ExitCodeOnlyAfterDrain ==
    exit_code # NoCode => (~procs[process].alive /\ procs[process].eof)

\* C2: an invocation of run() that begins after another invocation has ended,
\* in a start failure or not, fails with the re-entrancy error.
C2_SecondRunRaises ==
    [][\A t \in Runners :
         (RunsEnded > 0 /\ run_calls' > run_calls /\ rpc'[t] # rpc[t])
            => rpc'[t] = "raised"]_vars

\* C3: at most one OS process is ever spawned for a handle, however the
\* invocations of run() interleave.
C3_AtMostOneSpawn == Len(procs) <= 1

\* C4: the callback is invoked at most once, and exactly once when an
\* invocation of run() has returned after a start failure or the child's exit.
C4_CallbackOnce ==
    has_callback =>
        /\ cb_count <= 1
        /\ (\E t \in Runners : rpc[t] = "done") => cb_count = 1

\* C5: notify() and terminate() called when no process was started or when
\* the process has exited raise nothing and invoke no relay.
C5_NoopWhenNothingToSignal ==
    \A s \in Signalers :
        snoop[s] => (spc[s] # "raised" /\ sres[s] = "none" /\ last_relay = NoRelay)

\* C6: when run() returns from the start-failure path, failed_to_start and
\* has_started are true, pid and exit_code are None, is_running is false and
\* the callback, if there is one, has been invoked.
C6_StartFailureReturn ==
    [][\A t \in Runners :
         (rpc[t] = "failcb" /\ rpc'[t] = "done") =>
            /\ failed_to_start' /\ has_started'
            /\ pid' = NoProcess /\ exit_code' = NoCode /\ ~is_running'
            /\ has_callback => cb_count' >= 1]_vars

\* C7: the lifecycle is one-way: once failed_to_start is true, pid and
\* exit_code stay None and is_running stays false; has_started,
\* failed_to_start, a pid and an exit code never change once set.
C7_OneWayLifecycle ==
    [][/\ failed_to_start =>
            (failed_to_start' /\ pid' = NoProcess /\ exit_code' = NoCode /\ ~is_running')
       /\ has_started => has_started'
       /\ pid # NoProcess => pid' = pid
       /\ exit_code # NoCode => exit_code' = exit_code]_vars

\* C8: whenever the start latch is set, run() has reached the running state
\* (a pid) or the start-failed state (failed_to_start).
C8_LatchImpliesOutcome ==
    has_started => (pid # NoProcess \/ failed_to_start)

\* C9: after terminate() has returned from a relay that succeeded, is_running
\* eventually is false and exit_code eventually is set.
C9_TerminateLeadsToExit ==
    \A s \in Signalers :
        (spc[s] = "returned" /\ sop[s] = "terminate" /\ sres[s] = "ok")
            ~> (~is_running /\ exit_code # NoCode)

\* run()'s attempt to spawn has succeeded or failed
SpawnAttempted == has_started \/ \E t \in Runners : rpc[t] \in {"assign", "set"}

\* C10: a thread blocked in wait_until_started is released once the spawn has
\* succeeded or failed; a blocked thread with a timeout is never blocked past
\* it; a call made when the latch is set does not block.
C10_WaitersReleased ==
    /\ \A w \in Waiters :
         (wpc[w] = "blocked" /\ SpawnAttempted) ~> (wpc[w] # "blocked")
    /\ [](\A w \in Waiters :
            (wpc[w] = "blocked" /\ wtimeout[w] # NoTimeout) => welapsed[w] <= wtimeout[w])
    /\ [][\A w \in Waiters :
            (has_started /\ wpc[w] = "idle" /\ wpc'[w] # "idle") => wpc'[w] = "returned"]_vars

\* a thread that blocked before the latch was set has been released by it
C10_Witness == \E w \in Waiters : wpc[w] = "released"

\* C11: on POSIX, whatever the user (none, the caller's own, another), every
\* relay that notify() or terminate() runs goes through sudo exactly when the
\* child it signals was spawned through sudo, that is when a user was given
\* and is not the caller's own.
C11_RelayElevatedIffSpawnElevated ==
    (is_posix /\ last_relay.kind = "posix") =>
        /\ last_relay.sudo <=> procs[last_relay.pid].command.sudo
        /\ procs[last_relay.pid].command.sudo <=> (user = "other")

C11_Witness == is_posix /\ last_relay.kind = "posix" /\ last_relay.sudo

\* C12: on POSIX, a notify() or terminate() that found the process running
\* runs the relay once, against the pid of the tracked process, with "term"
\* and no cascade to subprocesses for notify() and with "kill" and cascade for
\* terminate(); the rest of the call runs no second relay.
C12_RelayOncePerCall ==
    [][\A s \in Signalers :
          /\ (is_posix /\ spc[s] = "signal" /\ spc'[s] # "signal") =>
                /\ sres'[s] \in {"ok", "failed"}
                /\ pid \in 1..Len(procs)
                /\ last_relay'.kind = "posix"
                /\ last_relay'.pid = pid
                /\ last_relay'.signal = (IF sop[s] = "notify" THEN "term" ELSE "kill")
                /\ last_relay'.signal_subprocesses = (sop[s] = "terminate")
          /\ spc[s] = "warn" => last_relay' = last_relay
      ]_vars

\* C13: the constructor raises exactly when `args` is empty or a user is given
\* whose class is not the host's; after it has raised nothing is ever called
\* or spawned; after it has returned, and until run() is called, pid and
\* exit_code are None and has_started, failed_to_start and is_running false.
C13_ConstructionChecks ==
    /\ handle # "unbuilt" =>
          (handle = "error" <=>
              \/ args_len = 0
              \/ user_type = "windows" /\ os_name = "posix"
              \/ user_type = "posix" /\ os_name = "nt")
    /\ handle = "error" => procs = << >> /\ run_calls = 0 /\ sig_calls = 0
    /\ (handle = "ok" /\ run_calls = 0) =>
          /\ pid = NoProcess
          /\ exit_code = NoCode
          /\ ~has_started
          /\ ~failed_to_start
          /\ ~is_running

C13_Witness == handle = "error" /\ args_len > 0 /\ os_name = "nt" /\ user_type = "posix"

\* the records logged so far for line i of the output
RecordsOf(i) == { k \in 1..Len(sink) : sink[k].line = i }

\* C14: every record handed to the logger has at most LOG_LINE_MAX_LENGTH
\* characters; the first record of a line longer than that holds its first
\* LOG_LINE_MAX_LENGTH characters; every read before the end of the stream
\* returns something, a blank line included, and the loop ends only at the end
\* of the stream, when every line has been logged to its last character.
C14_CappedRecordsToEndOfStream ==
    /\ \A k \in 1..Len(sink) : sink[k].len <= 64000
    /\ \A k \in 1..Len(sink) :
          (sink[k].off = 0 /\ pipe[sink[k].line].len > 64000) => sink[k].len = 64000
    /\ \A k \in 1..Len(sink) :
          sink[k].off > 0 =>
             \E j \in RecordsOf(sink[k].line) : j < k /\ sink[j].off + sink[j].len = sink[k].off
    /\ (reader.at = "reading" /\ reader.line <= Len(pipe)) => ENABLED StreamForward
    /\ reader.at = "eof" =>
          \A i \in 1..Len(pipe) :
             /\ \E k \in RecordsOf(i) : sink[k].off = 0
             /\ \E k \in RecordsOf(i) : sink[k].off + sink[k].len = pipe[i].len

C14_Witness ==
    /\ reader.at = "eof"
    /\ \E i \in 1..Len(pipe) : pipe[i].len > 64000 /\ i < Len(pipe) /\ pipe[i + 1].len = 0

\* C15: on POSIX, a notify() or terminate() whose relay exited with a status
\* other than 0 logs the warning and returns without raising, and no step of
\* the call from the relay on changes pid, has_started or failed_to_start.
C15_RelayFailureOnlyWarns ==
    /\ [](\A s \in Signalers :
            (is_posix /\ sres[s] = "failed") => spc[s] \in {"warn", "returned"})
    /\ [][\A s \in Signalers :
            (is_posix /\ spc[s] \in {"signal", "warn"} /\ spc'[s] # spc[s]) =>
                (pid' = pid /\ has_started' = has_started
                 /\ failed_to_start' = failed_to_start)
         ]_vars

\* C16: the signal_child argument handed to the POSIX relay is true exactly
\* when the relay is run through sudo, which is when the child was spawned
\* through sudo; it is false for a child spawned directly, also when a user is
\* given that is the caller's own.
C16_SignalChildIffElevated ==
    last_relay.kind = "posix" =>
        /\ last_relay.signal_child <=> last_relay.sudo
        /\ last_relay.signal_child <=> procs[last_relay.pid].command.sudo

\* C17: the command of every child follows the table: on POSIX the
\* sudo/setsid prefix exactly when a user is given that is not the caller's
\* own; on Windows the powershell wrapper exactly when a user is given, the
\* args run directly otherwise; a new session or process group in every case.
C17_SpawnCommandTable ==
    \A p \in 1..Len(procs) :
        /\ is_posix =>
              /\ procs[p].command.sudo <=> (user = "other")
              /\ ~procs[p].command.wrapper
        /\ ~is_posix =>
              /\ ~procs[p].command.sudo
              /\ procs[p].command.wrapper <=> (user # "none")
        /\ procs[p].command.start_new_session \/ procs[p].command.new_process_group

\* C17, with the Windows row as the code builds it: as above on POSIX; on Windows the command of every child is
\* the powershell wrapper, with a user and with none, in a new process group.
C17_SpawnCommandAsBuilt ==
    \A p \in 1..Len(procs) :
        /\ is_posix =>
              /\ procs[p].command.sudo <=> (user = "other")
              /\ ~procs[p].command.wrapper
              /\ procs[p].command.start_new_session
        /\ ~is_posix =>
              /\ ~procs[p].command.sudo
              /\ procs[p].command.wrapper
              /\ procs[p].command.new_process_group

C17_Witness ==
    \E p \in 1..Len(procs) : ~is_posix /\ user = "none" /\ procs[p].command.wrapper

\* C18: a run() that spawned its child has released the latch before it logs
\* the start, has read the child's output to the end of the stream before it
\* reaps, and when it is at the callback exit_code is not None and is_running
\* is false; once the callback has been invoked no output line is forwarded.
C18_SuccessPathOrder ==
    /\ [](\A t \in Runners :
            /\ rpc[t] \in {"log", "stream", "read", "wait", "cb"} =>
                  has_started /\ pid # NoProcess
            /\ rpc[t] \in {"wait", "cb"} =>
                  pid # NoProcess /\ procs[pid].eof /\ procs[pid].out = 0
            /\ rpc[t] = "cb" => exit_code # NoCode /\ ~is_running)
    /\ [][cb_count > 0 =>
            \A p \in 1..Len(procs) : procs'[p].out = procs[p].out]_vars

\* C19: no relay (POSIX script or Windows tree kill) is run against a pid
\* whose process has already been collected by wait() or poll().
C19_NoRelayAfterReap ==
    [][(last_relay' # last_relay /\ last_relay'.kind # "none") =>
          procs[last_relay'.pid].returncode = NoCode]_vars

\* C20: whenever pid is not None, has_started is true.
C20_PidImpliesLatch == pid # NoProcess => has_started

\* C20, with the step between lines 141 and 142: whenever pid is not None, has_started is true or the thread
\* that stored the process at line 141 has not yet executed line 142.
C20_PidImpliesLatchOrAboutToSet ==
    pid # NoProcess => (has_started \/ \E t \in Runners : rpc[t] = "set")

C20_Witness == pid # NoProcess /\ is_running /\ ~has_started /\ rpc[Owner] = "set"

=============================================================================
